---- MODULE Spec2Model ----
(***************************************************************************)
(* Vanity address generator: the matcher (lib/vanity/match.ts), the search *)
(* engine (workers/vanity.worker.ts) and the controller that drives it     *)
(* (ui/components/vanity/vanity-generator.tsx).                            *)
(*                                                                         *)
(* Strings are sequences of one-character strings.                         *)
(***************************************************************************)
EXTENDS Integers, Sequences, FiniteSets, TLC

(***************************************************************************)
(* Bounds of the model.                                                    *)
(***************************************************************************)
\* longest address body (the part after 0x) the matcher is applied to
MaxAddrLen == 2
\* largest combined length of startsWith, endsWith and includes
MaxCfgLen == 3
\* candidates per batch (the worker's batchSize is 500; the model runs short batches)
batchSize == 1
\* batches the engine starts in one behaviour
MaxBatches == 3
\* clicks on Start, Stop and Reset in one behaviour
MaxClicks == 3

(***************************************************************************)
(* Strings                                                                 *)
(***************************************************************************)
\* all strings over alphabet A of length at most n
Strings(A, n) == UNION {[1..k -> A] : k \in 0..n}

\* characters of address bodies and of patterns, of the includes list
AddrChars == {"a", "b", "B"}
PatChars == {"a", "B"}
IncChars == {"a", "B", ",", " ", "\t"}

\* String.prototype.toLowerCase, one character
LowerChar(c) ==
  CASE c = "A" -> "a"
    [] c = "B" -> "b"
    [] c = "X" -> "x"
    [] OTHER -> c

\* String.prototype.toLowerCase
toLowerCase(s) == [k \in 1..Len(s) |-> LowerChar(s[k])]

\* String.prototype.startsWith
strStartsWith(s, p) == Len(p) <= Len(s) /\ SubSeq(s, 1, Len(p)) = p

\* String.prototype.endsWith
strEndsWith(s, p) == Len(p) <= Len(s) /\ SubSeq(s, Len(s) - Len(p) + 1, Len(s)) = p

\* String.prototype.includes
strIncludes(s, k) == \E j \in 0..(Len(s) - Len(k)) : SubSeq(s, j + 1, j + Len(k)) = k

\* s.startsWith('0x') ? s.slice(2) : s
strip0x(s) == IF strStartsWith(s, <<"0", "x">>) THEN SubSeq(s, 3, Len(s)) ELSE s

\* the characters the regular expression /[, ]+/ matches
SplitChars == {",", " "}

\* String.prototype.split(/[, ]+/): the pieces between the maximal runs of
\* separators, empty pieces at the two ends included
RECURSIVE splitFrom(_, _, _, _)
splitFrom(s, k, cur, inSep) ==
  IF k > Len(s) THEN <<cur>>
  ELSE IF s[k] \in SplitChars
       THEN IF inSep THEN splitFrom(s, k + 1, cur, TRUE)
            ELSE <<cur>> \o splitFrom(s, k + 1, <<>>, TRUE)
       ELSE splitFrom(s, k + 1, Append(cur, s[k]), FALSE)

split(s) == splitFrom(s, 1, <<>>, FALSE)

\* Array.prototype.filter(Boolean) on an array of strings
filterBoolean(a) == SelectSeq(a, LAMBDA t : t # <<>>)

\* includes.split(/[, ]+/).filter(Boolean)
keywordsOf(inc) == filterBoolean(split(inc))

(***************************************************************************)
(* matchAddress                                                            *)
(***************************************************************************)
\* includesStage with the two modes exchanged
includesStage_swapped(cleanAddress, inc, includesMode) ==
  IF inc # <<>>
  THEN LET keywords == keywordsOf(inc) IN
       IF Len(keywords) > 0
       THEN IF includesMode = "any"
            THEN \A j \in 1..Len(keywords) : strIncludes(cleanAddress, keywords[j])
            ELSE \E j \in 1..Len(keywords) : strIncludes(cleanAddress, keywords[j])
       ELSE TRUE
  ELSE TRUE

\* the includes stage of matchAddress, on the normalised strings
includesStage(cleanAddress, inc, includesMode) ==
  IF inc # <<>>
  THEN LET keywords == keywordsOf(inc) IN
       IF Len(keywords) > 0
       THEN IF includesMode = "any"
            THEN \E j \in 1..Len(keywords) : strIncludes(cleanAddress, keywords[j])
            ELSE \A j \in 1..Len(keywords) : strIncludes(cleanAddress, keywords[j])
       ELSE TRUE
  ELSE TRUE

\* prefixSuffixStage whose and mode forgets the endsWith test
prefixSuffixStage_noEnd(cleanAddress, sw, ew, prefixSuffixMode) ==
  LET hasStart == sw # <<>>
      hasEnd == ew # <<>>
      startMatch == IF hasStart THEN strStartsWith(cleanAddress, strip0x(sw)) ELSE TRUE
      endMatch == IF hasEnd THEN strEndsWith(cleanAddress, strip0x(ew)) ELSE TRUE
  IN IF prefixSuffixMode = "or"
     THEN IF hasStart /\ hasEnd THEN ~(~startMatch /\ ~endMatch)
          ELSE IF hasStart THEN startMatch
          ELSE IF hasEnd THEN endMatch
          ELSE TRUE
     ELSE ~(hasStart /\ ~startMatch)

\* prefixSuffixStage whose or mode asks for both sides when both are set
prefixSuffixStage_orBoth(cleanAddress, sw, ew, prefixSuffixMode) ==
  LET hasStart == sw # <<>>
      hasEnd == ew # <<>>
      startMatch == IF hasStart THEN strStartsWith(cleanAddress, strip0x(sw)) ELSE TRUE
      endMatch == IF hasEnd THEN strEndsWith(cleanAddress, strip0x(ew)) ELSE TRUE
  IN IF prefixSuffixMode = "or"
     THEN IF hasStart /\ hasEnd THEN ~(~startMatch \/ ~endMatch)
          ELSE IF hasStart THEN startMatch
          ELSE IF hasEnd THEN endMatch
          ELSE TRUE
     ELSE ~(hasStart /\ ~startMatch) /\ ~(hasEnd /\ ~endMatch)

\* prefixSuffixStage whose or mode lets every address pass when one side is set
prefixSuffixStage_orOneSide(cleanAddress, sw, ew, prefixSuffixMode) ==
  LET hasStart == sw # <<>>
      hasEnd == ew # <<>>
      startMatch == IF hasStart THEN strStartsWith(cleanAddress, strip0x(sw)) ELSE TRUE
      endMatch == IF hasEnd THEN strEndsWith(cleanAddress, strip0x(ew)) ELSE TRUE
  IN IF prefixSuffixMode = "or"
     THEN IF hasStart /\ hasEnd THEN ~(~startMatch /\ ~endMatch)
          ELSE TRUE
     ELSE ~(hasStart /\ ~startMatch) /\ ~(hasEnd /\ ~endMatch)

\* prefixSuffixStage whose or mode asks for at least one side to be set
prefixSuffixStage_orNeedsOne(cleanAddress, sw, ew, prefixSuffixMode) ==
  LET hasStart == sw # <<>>
      hasEnd == ew # <<>>
      startMatch == IF hasStart THEN strStartsWith(cleanAddress, strip0x(sw)) ELSE TRUE
      endMatch == IF hasEnd THEN strEndsWith(cleanAddress, strip0x(ew)) ELSE TRUE
  IN IF prefixSuffixMode = "or"
     THEN IF hasStart /\ hasEnd THEN ~(~startMatch /\ ~endMatch)
          ELSE IF hasStart THEN startMatch
          ELSE IF hasEnd THEN endMatch
          ELSE FALSE
     ELSE ~(hasStart /\ ~startMatch) /\ ~(hasEnd /\ ~endMatch)

\* the prefix/suffix stage of matchAddress, on the normalised strings
prefixSuffixStage(cleanAddress, sw, ew, prefixSuffixMode) ==
  LET hasStart == sw # <<>>
      hasEnd == ew # <<>>
      startMatch == IF hasStart THEN strStartsWith(cleanAddress, strip0x(sw)) ELSE TRUE
      endMatch == IF hasEnd THEN strEndsWith(cleanAddress, strip0x(ew)) ELSE TRUE
  IN IF prefixSuffixMode = "or"
     THEN IF hasStart /\ hasEnd THEN ~(~startMatch /\ ~endMatch)
          ELSE IF hasStart THEN startMatch
          ELSE IF hasEnd THEN endMatch
          ELSE TRUE
     ELSE ~(hasStart /\ ~startMatch) /\ ~(hasEnd /\ ~endMatch)

\* cleanAddressOf that looks for the 0x before it folds the case
cleanAddressOf_stripFirst(address, cfg) ==
  IF ~cfg.caseSensitive THEN toLowerCase(strip0x(address)) ELSE strip0x(address)

\* the address after case folding and removal of a leading 0x
cleanAddressOf(address, cfg) ==
  strip0x(IF ~cfg.caseSensitive THEN toLowerCase(address) ELSE address)

\* a pattern field after case folding
foldOf(s, cfg) == IF ~cfg.caseSensitive THEN toLowerCase(s) ELSE s

\* matchAddress that accepts every address
matchAddress_always(address, cfg) == TRUE

\* matchAddress of src/lib/vanity/matcher
matchAddress(address, cfg) ==
  LET cleanAddress == cleanAddressOf(address, cfg)
      sw == foldOf(cfg.startsWith, cfg)
      ew == foldOf(cfg.endsWith, cfg)
      inc == foldOf(cfg.includes, cfg)
  IN IF ~prefixSuffixStage(cleanAddress, sw, ew, cfg.prefixSuffixMode) THEN FALSE
     ELSE IF ~includesStage(cleanAddress, inc, cfg.includesMode) THEN FALSE
     ELSE TRUE

(***************************************************************************)
(* Inputs of the matcher                                                   *)
(***************************************************************************)
\* an address as the matcher may be handed it: with 0x, 0X or no prefix
AddrPrefixes == {<<"0", "x">>, <<"0", "X">>, <<>>}
Addresses == {p \o b : p \in AddrPrefixes, b \in Strings(AddrChars, MaxAddrLen)}

PrefixSuffixModes == {"and", "or"}
IncludesModes == {"all", "any"}

\* the configs whose three strings have a combined length of at most MaxCfgLen
MatcherConfigs ==
  UNION {UNION {
    {[count |-> 1, startsWith |-> sw, endsWith |-> ew, prefixSuffixMode |-> pm,
      includes |-> inc, caseSensitive |-> cs, includesMode |-> im] :
       inc \in Strings(IncChars, MaxCfgLen - Len(sw) - Len(ew)),
       pm \in PrefixSuffixModes, cs \in BOOLEAN, im \in IncludesModes} :
    ew \in Strings(PatChars, MaxCfgLen - Len(sw))} :
    sw \in Strings(PatChars, MaxCfgLen)}

VARIABLES
  mAddress,     \* matcher: the address argument
  mConfig,      \* matcher: the config argument
  mCalled,      \* matcher: whether matchAddress has returned
  mResult,      \* matcher: the value matchAddress returned
  isRunning,    \* worker: let isRunning
  currentConfig,\* worker: let currentConfig
  pc,           \* worker: "idle" between tasks, "batch" inside workLoop's for loop
  i,            \* worker: the loop counter of workLoop
  attempts,     \* worker: the local attempts of workLoop
  timers,       \* worker: the pending setTimeout(workLoop, 0) callbacks, oldest first;
                \*   each is TRUE once a stop was processed after it was scheduled
  inbox,        \* commands posted by the controller, not yet dispatched in the worker
  outbox,       \* events posted by the worker, not yet dispatched in the controller
  config,       \* controller: the config state (and configRef.current)
  uiIsRunning,  \* controller: the isRunning state
  results,      \* controller: the results state
  uiAttempts,   \* controller: the attempts state
  run,          \* history: start commands the worker accepted
  batchNo,      \* history: batches the worker started
  foundInRun,   \* history: found events posted since the last accepted start
  runCount,     \* history: count of the config of the last accepted start
  ignored,      \* history: start commands the worker dropped because a run was active
  clicks,       \* history: commands posted by a click (Start, Stop, Reset)
  failed,       \* history: the run in which the key primitive failed, 0 if it has not
  completed,    \* history: batches that ran to their end
  progressSum,  \* history: the sum of the attempts of the progress events posted
  runConfig,    \* history: the config of the last accepted start
  uiStart,      \* history: start commands the controller posted
  resultsOf,    \* history: for each entry of results, the run that posted it
  attemptsOf    \* history: the runs whose progress events were added to attempts

mvars == <<mAddress, mConfig, mCalled, mResult>>
wvars == <<isRunning, currentConfig, pc, i, attempts, timers>>
uvars == <<config, uiIsRunning, results, uiAttempts>>
hvars == <<run, batchNo, foundInRun, runCount, ignored, clicks, failed>>
\* history of the batches, history of the controller
bvars == <<completed, progressSum, runConfig>>
cvars == <<uiStart, resultsOf, attemptsOf>>
evars == <<wvars, inbox, outbox, uvars, hvars, bvars, cvars>>
vars == <<mvars, evars>>

(***************************************************************************)
(* The engine and its controller                                           *)
(***************************************************************************)
\* currentConfig = null
Null == [null |-> TRUE]

\* the initial config state of VanityGenerator
DefaultConfig ==
  [count |-> 1, startsWith |-> <<>>, endsWith |-> <<>>, prefixSuffixMode |-> "and",
   includes |-> <<>>, caseSensitive |-> FALSE, includesMode |-> "all"]

\* the configs the form is set to in the engine model
EngineConfigs ==
  {DefaultConfig, [DefaultConfig EXCEPT !.count = 2, !.startsWith = <<"a">>]}

\* the private keys generatePrivateKey returns in the engine model
PrivateKeys == {1, 2}

\* privateKeyToAccount(privateKey).address
privateKeyToAccount(k) ==
  IF k = 1 THEN <<"0", "x", "a", "B">> ELSE <<"0", "x", "b", "a">>

\* the batch in progress when a command is posted, 0 between batches
NowDuring == IF pc = "batch" THEN batchNo ELSE 0

EngineInit ==
  /\ isRunning = FALSE
  /\ currentConfig = Null
  /\ pc = "idle"
  /\ i = 0
  /\ attempts = 0
  /\ timers = <<>>
  /\ inbox = <<>>
  /\ outbox = <<>>
  /\ config = DefaultConfig
  /\ uiIsRunning = FALSE
  /\ results = <<>>
  /\ uiAttempts = 0
  /\ run = 0
  /\ batchNo = 0
  /\ foundInRun = 0
  /\ runCount = 0
  /\ ignored = 0
  /\ clicks = 0
  /\ failed = 0
  /\ completed = 0
  /\ progressSum = 0
  /\ runConfig = Null
  /\ uiStart = 0
  /\ resultsOf = <<>>
  /\ attemptsOf = {}

MatcherIdle ==
  /\ mAddress = <<>>
  /\ mConfig = DefaultConfig
  /\ mCalled = FALSE
  /\ mResult = FALSE

\* ---- controller ----
\* The controller runs on its own thread: its handlers interleave with the
\* steps of the worker, also while a batch is executing.

\* handleInputChange: the form changes the config
handleInputChange(c) ==
  /\ c # config
  /\ config' = c
  /\ UNCHANGED <<mvars, wvars, inbox, outbox, uiIsRunning, results, uiAttempts, hvars,
                 bvars, cvars>>

\* start: the Start button (every config of EngineConfigs passes the validation)
start ==
  /\ ~uiIsRunning
  /\ clicks < MaxClicks
  /\ results' = <<>>
  /\ uiAttempts' = 0
  /\ uiIsRunning' = TRUE
  /\ inbox' = Append(inbox, [type |-> "start", config |-> config])
  /\ clicks' = clicks + 1
  /\ uiStart' = uiStart + 1
  /\ resultsOf' = <<>>
  /\ attemptsOf' = {}
  /\ UNCHANGED <<mvars, wvars, outbox, config, run, batchNo, foundInRun, runCount, ignored,
                 failed, bvars>>

\* stop: the Stop button, rendered while isRunning
stop ==
  /\ uiIsRunning
  /\ clicks < MaxClicks
  /\ uiIsRunning' = FALSE
  /\ inbox' = Append(inbox, [type |-> "stop", during |-> NowDuring])
  /\ clicks' = clicks + 1
  /\ UNCHANGED <<mvars, wvars, outbox, config, results, uiAttempts, run, batchNo,
                 foundInRun, runCount, ignored, failed, bvars, cvars>>

\* reset: the Reset button
reset ==
  /\ clicks < MaxClicks
  /\ uiIsRunning' = FALSE
  /\ inbox' = Append(inbox, [type |-> "stop", during |-> NowDuring])
  /\ results' = <<>>
  /\ uiAttempts' = 0
  /\ config' = DefaultConfig
  /\ clicks' = clicks + 1
  /\ resultsOf' = <<>>
  /\ attemptsOf' = {}
  /\ UNCHANGED <<mvars, wvars, outbox, run, batchNo, foundInRun, runCount, ignored, failed,
                 bvars, uiStart>>

\* workerRef.current.onmessage: a found or progress event is dispatched
uiOnMessage ==
  /\ outbox # <<>>
  /\ Head(outbox).type \in {"found", "progress"}
  /\ outbox' = Tail(outbox)
  /\ LET e == Head(outbox) IN
     IF e.type = "found"
     THEN LET newResults == Append(results, e.result) IN
          /\ results' = newResults
          /\ resultsOf' = Append(resultsOf, e.run)
          /\ IF Len(newResults) >= config.count
             THEN /\ inbox' = Append(inbox, [type |-> "stop", during |-> NowDuring])
                  /\ uiIsRunning' = FALSE
             ELSE UNCHANGED <<inbox, uiIsRunning>>
          /\ UNCHANGED <<uiAttempts, attemptsOf>>
     ELSE /\ uiAttempts' = uiAttempts + e.attempts
          /\ attemptsOf' = attemptsOf \cup {e.run}
          /\ UNCHANGED <<inbox, uiIsRunning, results, resultsOf>>
  /\ UNCHANGED <<mvars, wvars, config, hvars, bvars, uiStart>>

\* the worker's error event is dispatched: the component registers no handler
uiOnError ==
  /\ outbox # <<>>
  /\ Head(outbox).type = "error"
  /\ outbox' = Tail(outbox)
  /\ UNCHANGED <<mvars, wvars, inbox, uvars, hvars, bvars, cvars>>

\* ---- worker ----
\* The worker runs one task at a time (pc = "idle" between tasks).  A command
\* message and a timer callback are tasks of different task sources, and a
\* command travels from the controller's thread: which of a queued command
\* and a pending callback runs first is not fixed, so either may be taken.
\* Commands are dispatched in the order posted, callbacks in the order set.

\* canStart without the test of isRunning
canStart_always == TRUE

\* if (!isRunning): a start command is accepted
canStart == ~isRunning

\* onmessage whose stop keeps the config of the run it ends
onmessage_keepConfig ==
  /\ pc = "idle"
  /\ inbox # <<>>
  /\ inbox' = Tail(inbox)
  /\ LET m == Head(inbox) IN
     IF m.type = "start"
     THEN IF canStart
          THEN /\ batchNo < MaxBatches
               /\ isRunning' = TRUE
               /\ currentConfig' = m.config
               /\ pc' = "batch"
               /\ i' = 0
               /\ attempts' = 0
               /\ run' = run + 1
               /\ batchNo' = batchNo + 1
               /\ foundInRun' = 0
               /\ runCount' = m.config.count
               /\ runConfig' = m.config
               /\ UNCHANGED <<timers, ignored>>
          ELSE /\ ignored' = ignored + 1
               /\ UNCHANGED <<wvars, run, batchNo, foundInRun, runCount, runConfig>>
     ELSE /\ isRunning' = FALSE
          /\ currentConfig' = currentConfig
          /\ timers' = [k \in 1..Len(timers) |-> TRUE]
          /\ UNCHANGED <<pc, i, attempts, run, batchNo, foundInRun, runCount, ignored,
                         runConfig>>
  /\ UNCHANGED <<mvars, outbox, uvars, clicks, failed, completed, progressSum, cvars>>

\* self.onmessage: the next command is dispatched
onmessage ==
  /\ pc = "idle"
  /\ inbox # <<>>
  /\ inbox' = Tail(inbox)
  /\ LET m == Head(inbox) IN
     IF m.type = "start"
     THEN IF canStart
          THEN \* isRunning = true; currentConfig = config; workLoop() enters its loop
               /\ batchNo < MaxBatches
               /\ isRunning' = TRUE
               /\ currentConfig' = m.config
               /\ pc' = "batch"
               /\ i' = 0
               /\ attempts' = 0
               /\ run' = run + 1
               /\ batchNo' = batchNo + 1
               /\ foundInRun' = 0
               /\ runCount' = m.config.count
               /\ runConfig' = m.config
               /\ UNCHANGED <<timers, ignored>>
          ELSE /\ ignored' = ignored + 1
               /\ UNCHANGED <<wvars, run, batchNo, foundInRun, runCount, runConfig>>
     ELSE /\ isRunning' = FALSE
          /\ currentConfig' = Null
          /\ timers' = [k \in 1..Len(timers) |-> TRUE]
          /\ UNCHANGED <<pc, i, attempts, run, batchNo, foundInRun, runCount, ignored,
                         runConfig>>
  /\ UNCHANGED <<mvars, outbox, uvars, clicks, failed, completed, progressSum, cvars>>

\* postMessage that puts the event in front of the events not yet dispatched
postMessage_front(queue, e) == <<e>> \o queue

\* self.postMessage(e): the event joins the end of the worker's message queue
postMessage(queue, e) == Append(queue, e)

\* workLoop that, when it finds the engine stopped, asks to be called again
workLoop_polling ==
  /\ pc = "idle"
  /\ timers # <<>>
  /\ IF ~isRunning \/ currentConfig = Null
     THEN /\ timers' = Append(Tail(timers), TRUE)
          /\ UNCHANGED <<pc, i, attempts, batchNo>>
     ELSE /\ batchNo < MaxBatches
          /\ timers' = Tail(timers)
          /\ pc' = "batch"
          /\ i' = 0
          /\ attempts' = 0
          /\ batchNo' = batchNo + 1
  /\ UNCHANGED <<mvars, isRunning, currentConfig, inbox, outbox, uvars, run, foundInRun,
                 runCount, ignored, clicks, failed, bvars, cvars>>

\* a setTimeout(workLoop, 0) callback runs: workLoop up to its for loop
workLoop ==
  /\ pc = "idle"
  /\ timers # <<>>
  /\ timers' = Tail(timers)
  /\ IF ~isRunning \/ currentConfig = Null
     THEN UNCHANGED <<pc, i, attempts, batchNo>>
     ELSE /\ batchNo < MaxBatches
          /\ pc' = "batch"
          /\ i' = 0
          /\ attempts' = 0
          /\ batchNo' = batchNo + 1
  /\ UNCHANGED <<mvars, isRunning, currentConfig, inbox, outbox, uvars, run, foundInRun,
                 runCount, ignored, clicks, failed, bvars, cvars>>

\* one iteration of the for loop of workLoop
loopBody ==
  /\ pc = "batch"
  /\ i < batchSize
  /\ \E privateKey \in PrivateKeys :
       LET address == privateKeyToAccount(privateKey) IN
       IF matchAddress(address, currentConfig)
       THEN /\ outbox' = postMessage(outbox,
                 [type |-> "found", run |-> run, batch |-> batchNo, pos |-> i + 1,
                  result |-> [address |-> address, privateKey |-> privateKey]])
            /\ foundInRun' = foundInRun + 1
       ELSE UNCHANGED <<outbox, foundInRun>>
  /\ attempts' = attempts + 1
  /\ i' = i + 1
  /\ UNCHANGED <<mvars, isRunning, currentConfig, pc, timers, inbox, uvars, run, batchNo,
                 runCount, ignored, clicks, failed, bvars, cvars>>

\* generatePrivateKey or privateKeyToAccount throws inside the for loop: the
\* exception leaves workLoop and its caller, the worker reports an error event
loopThrow ==
  /\ pc = "batch"
  /\ i < batchSize
  /\ failed = 0
  /\ pc' = "idle"
  /\ outbox' = Append(outbox, [type |-> "error", run |-> run])
  /\ failed' = run
  /\ UNCHANGED <<mvars, isRunning, currentConfig, i, attempts, timers, inbox, uvars, run,
                 batchNo, foundInRun, runCount, ignored, clicks, bvars, cvars>>

\* progressEvent that reports the total of the attempts so far
progressEvent_total ==
  [type |-> "progress", run |-> run, batch |-> batchNo, pos |-> batchSize + 1,
   attempts |-> progressSum + attempts]

\* self.postMessage({ type: 'progress', attempts }); run, batch and pos are
\* history: the run and the batch that post it, and its place in the batch
progressEvent ==
  [type |-> "progress", run |-> run, batch |-> batchNo, pos |-> batchSize + 1,
   attempts |-> attempts]

\* the end of workLoop: the progress event and the rescheduling
loopEnd ==
  /\ pc = "batch"
  /\ i = batchSize
  /\ outbox' = postMessage(outbox, progressEvent)
  /\ timers' = IF isRunning THEN Append(timers, FALSE) ELSE timers
  /\ pc' = "idle"
  /\ completed' = completed + 1
  /\ progressSum' = progressSum + progressEvent.attempts
  /\ UNCHANGED <<mvars, isRunning, currentConfig, i, attempts, inbox, uvars, hvars,
                 runConfig, cvars>>

Init == MatcherIdle /\ EngineInit

Next ==
  \/ \E c \in EngineConfigs : handleInputChange(c)
  \/ start
  \/ stop
  \/ reset
  \/ uiOnMessage
  \/ uiOnError
  \/ onmessage
  \/ workLoop
  \/ loopBody
  \/ loopThrow
  \/ loopEnd

Spec == Init /\ [][Next]_vars

(***************************************************************************)
(* The engine under any controller: commands are posted in any order, and  *)
(* the events are taken off the channel without being interpreted.         *)
(***************************************************************************)
\* some client posts { type: 'start', config }
postStart(c) ==
  /\ clicks < MaxClicks
  /\ inbox' = Append(inbox, [type |-> "start", config |-> c])
  /\ clicks' = clicks + 1
  /\ UNCHANGED <<mvars, wvars, outbox, uvars, run, batchNo, foundInRun, runCount, ignored,
                 failed, bvars, cvars>>

\* some client posts { type: 'stop' }
postStop ==
  /\ clicks < MaxClicks
  /\ inbox' = Append(inbox, [type |-> "stop", during |-> NowDuring])
  /\ clicks' = clicks + 1
  /\ UNCHANGED <<mvars, wvars, outbox, uvars, run, batchNo, foundInRun, runCount, ignored,
                 failed, bvars, cvars>>

\* the oldest event leaves the channel
deliver ==
  /\ outbox # <<>>
  /\ outbox' = Tail(outbox)
  /\ UNCHANGED <<mvars, wvars, inbox, uvars, hvars, bvars, cvars>>

EngineNext ==
  \/ \E c \in EngineConfigs : postStart(c)
  \/ postStop
  \/ deliver
  \/ onmessage
  \/ workLoop
  \/ loopBody
  \/ loopThrow
  \/ loopEnd

EngineSpec == Init /\ [][EngineNext]_vars

\* the worker's event loop: a batch that has begun runs on to its end or to
\* its failure, and a task that is queued again and again (a command, a
\* setTimeout callback) is run in the end
EngineFairness ==
  /\ WF_vars(loopBody \/ loopThrow \/ loopEnd)
  /\ SF_vars(onmessage)
  /\ SF_vars(workLoop)
EngineFairSpec == EngineSpec /\ EngineFairness

(***************************************************************************)
(* The matcher on its own                                                  *)
(***************************************************************************)
MatchInit ==
  /\ mAddress \in Addresses
  /\ mConfig \in MatcherConfigs
  /\ mCalled = FALSE
  /\ mResult = FALSE
  /\ EngineInit

\* one call of matchAddress
Match ==
  /\ ~mCalled
  /\ mCalled' = TRUE
  /\ mResult' = matchAddress(mAddress, mConfig)
  /\ UNCHANGED <<mAddress, mConfig, evars>>

MatchNext == Match

MatchSpec == MatchInit /\ [][MatchNext]_vars

(***************************************************************************)
(* Properties of the matcher (checked under MatchSpec)                     *)
(***************************************************************************)
\* s begins with p, s ends with p, s has t as a substring
BeginsWith(s, p) == \E n \in 0..Len(s) : p = SubSeq(s, 1, n)
FinishesWith(s, p) == \E n \in 0..Len(s) : p = SubSeq(s, Len(s) - n + 1, Len(s))
Contains(s, t) == \E a \in 0..Len(s) : \E b \in a..Len(s) : t = SubSeq(s, a + 1, b)

\* a string without its leading 0x
Without0x(s) ==
  IF Len(s) >= 2 /\ s[1] = "0" /\ s[2] = "x" THEN [k \in 1..(Len(s) - 2) |-> s[k + 2]] ELSE s

\* a string as the matcher compares it: case folded unless caseSensitive, no 0x
Normal(s, cfg) == Without0x(IF cfg.caseSensitive THEN s ELSE toLowerCase(s))

\* the separators the matcher splits the includes list at, and its tokens:
\* the maximal runs of characters that are not separators
ListSeparators == {",", " "}
TokenSet(s) ==
  {SubSeq(s, a, b) : <<a, b>> \in
     {ab \in (1..Len(s)) \X (1..Len(s)) :
        /\ ab[1] <= ab[2]
        /\ \A k \in ab[1]..ab[2] : s[k] \notin ListSeparators
        /\ (ab[1] = 1 \/ s[ab[1] - 1] \in ListSeparators)
        /\ (ab[2] = Len(s) \/ s[ab[2] + 1] \in ListSeparators)}}

\* the tokens of a config, case folded unless caseSensitive
TokensOf(cfg) == TokenSet(IF cfg.caseSensitive THEN cfg.includes ELSE toLowerCase(cfg.includes))

\* the includes check of section 4.1, step 3
IncludesPass(address, cfg) ==
  LET a == Normal(address, cfg)
      ts == TokensOf(cfg)
  IN IF ts = {} THEN TRUE
     ELSE IF cfg.includesMode = "all" THEN \A t \in ts : Contains(a, t)
     ELSE \E t \in ts : Contains(a, t)

StartHolds(address, cfg) == BeginsWith(Normal(address, cfg), Normal(cfg.startsWith, cfg))
EndHolds(address, cfg) == FinishesWith(Normal(address, cfg), Normal(cfg.endsWith, cfg))

\* the prefix/suffix check of section 4.1, step 2
PrefixSuffixPass(address, cfg) ==
  IF cfg.prefixSuffixMode = "or" /\ cfg.startsWith # <<>> /\ cfg.endsWith # <<>>
  THEN StartHolds(address, cfg) \/ EndHolds(address, cfg)
  ELSE /\ (cfg.startsWith = <<>> \/ StartHolds(address, cfg))
       /\ (cfg.endsWith = <<>> \/ EndHolds(address, cfg))

\* C6: in and mode a match implies that the normalised address starts with a
\* non-empty startsWith and ends with a non-empty endsWith; an empty side never
\* causes a failure: with no includes list, the sides that are set decide
C6_AndMode ==
  (mCalled /\ mConfig.prefixSuffixMode = "and") =>
    /\ mResult =>
         /\ (mConfig.startsWith # <<>> => StartHolds(mAddress, mConfig))
         /\ (mConfig.endsWith # <<>> => EndHolds(mAddress, mConfig))
    /\ ( /\ mConfig.includes = <<>>
         /\ (mConfig.startsWith = <<>> \/ StartHolds(mAddress, mConfig))
         /\ (mConfig.endsWith = <<>> \/ EndHolds(mAddress, mConfig)) ) => mResult

\* a match in and mode with both sides set, one of them in another case
C6_Witness ==
  /\ mCalled /\ mResult
  /\ mConfig.prefixSuffixMode = "and"
  /\ mConfig.startsWith # <<>> /\ mConfig.endsWith # <<>>
  /\ ~mConfig.caseSensitive
  /\ BeginsWith(mAddress, <<"0", "x">>)
  /\ toLowerCase(mAddress) # mAddress

\* C7 as claimed: in or mode with both sides set, matchAddress is true if and
\* only if the normalised address starts with startsWith or ends with endsWith
C7_OrModeBoth ==
  (mCalled /\ mConfig.prefixSuffixMode = "or"
     /\ mConfig.startsWith # <<>> /\ mConfig.endsWith # <<>>) =>
    (mResult <=> (StartHolds(mAddress, mConfig) \/ EndHolds(mAddress, mConfig)))

\* C7 as amended: in or mode with both sides set, matchAddress is true if and
\* only if at least one of the two sides holds and the includes check passes
C7_OrModeBothAmended ==
  (mCalled /\ mConfig.prefixSuffixMode = "or"
     /\ mConfig.startsWith # <<>> /\ mConfig.endsWith # <<>>) =>
    (mResult <=> ( /\ (StartHolds(mAddress, mConfig) \/ EndHolds(mAddress, mConfig))
                   /\ IncludesPass(mAddress, mConfig) ))

\* or mode, both sides set, only the suffix holds, and the includes list passes
C7_Witness ==
  /\ mCalled /\ mResult
  /\ mConfig.prefixSuffixMode = "or"
  /\ mConfig.startsWith # <<>> /\ mConfig.endsWith # <<>>
  /\ ~StartHolds(mAddress, mConfig) /\ EndHolds(mAddress, mConfig)
  /\ mConfig.includes # <<>>

\* two addresses that differ in the case of some characters only
CasePairs == {{"a", "A"}, {"b", "B"}, {"x", "X"}}
CaseVariant(s, t) ==
  /\ Len(s) = Len(t)
  /\ \A k \in 1..Len(s) : s[k] = t[k] \/ {s[k], t[k]} \in CasePairs

\* C8: when caseSensitive is false, every address that differs from the given
\* one only in the case of characters (the x of 0x included) gets the same answer
C8_CaseInsensitive ==
  (mCalled /\ ~mConfig.caseSensitive) =>
    \A other \in Addresses :
      CaseVariant(other, mAddress) => matchAddress(other, mConfig) = mResult

\* a match of an address written 0X.. with an upper-case digit, on a prefix
C8_Witness ==
  /\ mCalled /\ mResult /\ ~mConfig.caseSensitive
  /\ mConfig.startsWith # <<>>
  /\ BeginsWith(mAddress, <<"0", "X">>)
  /\ \E k \in 3..Len(mAddress) : mAddress[k] = "B"

\* C9: with a non-empty token list, a match implies that every token (all) or
\* some token (any) is a substring of the normalised address, and when the
\* prefix/suffix check passes the result is exactly that
C9_Includes ==
  (mCalled /\ TokensOf(mConfig) # {}) =>
    LET a == Normal(mAddress, mConfig)
        every == \A t \in TokensOf(mConfig) : Contains(a, t)
        some == \E t \in TokensOf(mConfig) : Contains(a, t)
        ok == IF mConfig.includesMode = "all" THEN every ELSE some
    IN /\ mResult => ok
       /\ PrefixSuffixPass(mAddress, mConfig) => (mResult <=> ok)

\* any mode, two tokens, one of them present: a match
C9_Witness ==
  /\ mCalled /\ mResult
  /\ mConfig.includesMode = "any"
  /\ Cardinality(TokensOf(mConfig)) = 2
  /\ \E t \in TokensOf(mConfig) : ~Contains(Normal(mAddress, mConfig), t)

\* C15: in or mode with exactly one of startsWith and endsWith set, a match
\* implies that the side that is set holds: the address starts with startsWith
\* when only startsWith is set, ends with endsWith when only endsWith is set
C15_OrModeOneSide ==
  (mCalled /\ mConfig.prefixSuffixMode = "or" /\ mResult) =>
    /\ (mConfig.startsWith # <<>> /\ mConfig.endsWith = <<>>) => StartHolds(mAddress, mConfig)
    /\ (mConfig.startsWith = <<>> /\ mConfig.endsWith # <<>>) => EndHolds(mAddress, mConfig)

\* or mode with endsWith only: a match, and an address of the same length
\* that the suffix rejects
C15_Witness ==
  /\ mCalled /\ mResult
  /\ mConfig.prefixSuffixMode = "or"
  /\ mConfig.startsWith = <<>> /\ mConfig.endsWith # <<>>
  /\ \E other \in Addresses : ~matchAddress(other, mConfig)

\* C16: with startsWith and endsWith both empty the result is the includes
\* check alone, in and mode and in or mode; and with an includes list that is
\* empty or has no token, every address matches
C16_VacuousPass ==
  (mCalled /\ mConfig.startsWith = <<>> /\ mConfig.endsWith = <<>>) =>
    /\ mResult <=> IncludesPass(mAddress, mConfig)
    /\ TokensOf(mConfig) = {} => mResult

\* or mode, no prefix and no suffix, an includes list of separators only: a
\* match
C16_Witness ==
  /\ mCalled /\ mResult
  /\ mConfig.prefixSuffixMode = "or"
  /\ mConfig.startsWith = <<>> /\ mConfig.endsWith = <<>>
  /\ mConfig.includes # <<>> /\ TokensOf(mConfig) = {}

\* commas and the whitespace characters space, tab and newline; the tokens of
\* a list split at every run of them
Whitespace == {" ", "\t", "\n"}
WhitespaceOrComma == {","} \cup Whitespace
WhitespaceTokenSet(s) ==
  {SubSeq(s, a, b) : <<a, b>> \in
     {ab \in (1..Len(s)) \X (1..Len(s)) :
        /\ ab[1] <= ab[2]
        /\ \A k \in ab[1]..ab[2] : s[k] \notin WhitespaceOrComma
        /\ (ab[1] = 1 \/ s[ab[1] - 1] \in WhitespaceOrComma)
        /\ (ab[2] = Len(s) \/ s[ab[2] + 1] \in WhitespaceOrComma)}}

\* C17: the tokens matchAddress tests are the pieces of the includes string
\* between runs of commas and whitespace (space, tab, newline), the empty ones
\* dropped: no token holds a comma or a whitespace character, and with no
\* prefix and no suffix the result is the test of those pieces
C17_Tokenisation ==
  mCalled =>
    LET inc == foldOf(mConfig.includes, mConfig)
        keywords == keywordsOf(inc)
        tokens == WhitespaceTokenSet(inc)
        a == Normal(mAddress, mConfig)
    IN /\ \A j \in 1..Len(keywords) :
            \A n \in 1..Len(keywords[j]) : keywords[j][n] \notin WhitespaceOrComma
       /\ {keywords[j] : j \in 1..Len(keywords)} = tokens
       /\ (mConfig.startsWith = <<>> /\ mConfig.endsWith = <<>> /\ tokens # {}) =>
            (mResult <=> IF mConfig.includesMode = "all"
                         THEN \A t \in tokens : Contains(a, t)
                         ELSE \E t \in tokens : Contains(a, t))

(***************************************************************************)
(* Properties of the engine                                                *)
(***************************************************************************)
\* the step in which a setTimeout callback runs, one in which a command and
\* one in which the worker's error event is dispatched
TimerStep == pc = "idle" /\ timers # <<>> /\ timers' = Tail(timers)
CommandStep == pc = "idle" /\ inbox # <<>> /\ inbox' = Tail(inbox)
ErrorStep == outbox # <<>> /\ Head(outbox).type = "error" /\ outbox' = Tail(outbox)
\* a step that posts an event
PostStep == Len(outbox') > Len(outbox)

\* C1: once a stop has been processed, the engine posts no event while it is
\* stopped, and a callback that was scheduled before the stop returns without a
\* batch and without a message, whatever commands follow
C1_StopMonotonic ==
  [][ /\ (PostStep /\ Head(SubSeq(outbox', Len(outbox'), Len(outbox'))).type # "error")
         => isRunning
      /\ (TimerStep /\ Head(timers)) => (pc' = "idle" /\ outbox' = outbox) ]_vars

\* C2: a stop posted while a batch is executing is processed before the
\* rescheduled callback starts the next batch
C2_CooperativeCancel ==
  [][ (TimerStep /\ pc' = "batch") =>
        ~\E k \in 1..Len(inbox) : inbox[k].type = "stop" /\ inbox[k].during > 0 ]_vars

\* C3: a start dispatched while isRunning is true changes nothing: config,
\* loop position, pending callbacks and posted events stay as they are
C3_StartIdempotent ==
  [][ (CommandStep /\ Head(inbox).type = "start" /\ isRunning) =>
        UNCHANGED <<isRunning, currentConfig, pc, i, attempts, timers, outbox, run,
                    batchNo>> ]_vars

\* a start was dropped and the run it met goes on
C3_Witness ==
  /\ ignored > 0
  /\ isRunning /\ currentConfig # Null
  /\ run = 1
  /\ timers # <<>>

\* C4: a run started with count = n posts at most n found events
C4_TargetCount == foundInRun <= runCount

\* C5: at most one workLoop callback is pending
C5_SingleLoop == Len(timers) <= 1

\* C10: a failure of the key primitive ends the batch with no progress event and
\* no rescheduling, no found or progress event of that run follows, and the
\* controller stops treating the run as active when the failure reaches it
C10_PrimitiveFailure ==
  [][ /\ (pc = "batch" /\ failed = 0 /\ failed' # 0) =>
           /\ pc' = "idle" /\ timers' = timers
           /\ outbox' = Append(outbox, [type |-> "error", run |-> run])
      /\ (PostStep /\ failed # 0 /\ failed = run) => FALSE
      /\ ErrorStep => ~uiIsRunning' ]_vars

\* the last event of the worker's message queue
LastOf(queue) == queue[Len(queue)]
\* a batch runs to its end
BatchEnd == pc = "batch" /\ pc' = "idle" /\ failed' = failed
\* one candidate of the batch is processed
CandidateStep == pc = "batch" /\ i' = i + 1

\* C11: a batch that completes posts exactly one progress event, after all its
\* candidates, with attempts = the candidates of that batch (the batch size);
\* progress is posted nowhere else, and the attempts posted sum to the batch
\* size times the completed batches
C11_ProgressAccounting ==
  [][ /\ BatchEnd =>
           /\ i = batchSize /\ attempts = i
           /\ Len(outbox') = Len(outbox) + 1
           /\ SubSeq(outbox', 1, Len(outbox)) = outbox
           /\ LastOf(outbox').type = "progress"
           /\ LastOf(outbox').attempts = batchSize
           /\ completed' = completed + 1
      /\ (PostStep /\ LastOf(outbox').type = "progress") => BatchEnd
      /\ ~BatchEnd => completed' = completed
      /\ progressSum' = batchSize * completed' ]_vars

\* two batches completed, the progress event of the second not yet dispatched
C11_Witness ==
  /\ completed = 2
  /\ progressSum = 2 * batchSize
  /\ \E k \in 1..Len(outbox) : outbox[k].type = "progress" /\ outbox[k].batch = 2

\* the order of production of found and progress events: by batch, and
\* inside a batch by candidate, the progress event last
Before(e, f) == e.batch < f.batch \/ (e.batch = f.batch /\ e.pos < f.pos)

\* C12: events reach the controller in the order of their production: the
\* queue hands over its oldest event, and a found or progress event that is
\* posted joins the end of the queue, behind events that were all produced
\* before it: found events in candidate order, progress events in batch
\* order, the found events of a batch before its progress event and after
\* the progress event of the batch before
C12_EventOrdering ==
  [][ /\ Len(outbox') < Len(outbox) => outbox' = Tail(outbox)
      /\ Len(outbox') > Len(outbox) =>
           /\ Len(outbox') = Len(outbox) + 1
           /\ SubSeq(outbox', 1, Len(outbox)) = outbox
           /\ LastOf(outbox').type \in {"found", "progress"} =>
                \A k \in 1..Len(outbox) :
                  outbox[k].type = "error" \/ Before(outbox[k], LastOf(outbox')) ]_vars

\* in the queue: a found event of batch 1, its progress event, a found event
\* of batch 2
C12_Witness ==
  \E j, k, l \in 1..Len(outbox) :
    /\ j < k /\ k < l
    /\ outbox[j].type = "found" /\ outbox[j].batch = 1
    /\ outbox[k].type = "progress" /\ outbox[k].batch = 1
    /\ outbox[l].type = "found" /\ outbox[l].batch = 2

\* the matcher of section 4.1 on the whole: both checks pass
Matches(address, cfg) == PrefixSuffixPass(address, cfg) /\ IncludesPass(address, cfg)

\* C13: a candidate that matches the config of the accepted start posts
\* exactly one found event, with its address and private key; a candidate that
\* does not match posts nothing; a found event is posted by a candidate only
C13_FoundSoundComplete ==
  [][ /\ CandidateStep =>
           \E privateKey \in PrivateKeys :
             LET address == privateKeyToAccount(privateKey) IN
             IF Matches(address, runConfig)
             THEN /\ Len(outbox') = Len(outbox) + 1
                  /\ SubSeq(outbox', 1, Len(outbox)) = outbox
                  /\ LastOf(outbox').type = "found"
                  /\ LastOf(outbox').result =
                       [address |-> address, privateKey |-> privateKey]
             ELSE outbox' = outbox
      /\ (PostStep /\ LastOf(outbox').type = "found") => CandidateStep ]_vars

\* a run that asks for the prefix a: two batches done, one candidate matched
\* and was posted, the other did not match
C13_Witness ==
  /\ run = 1 /\ runConfig # Null /\ runConfig.startsWith # <<>>
  /\ completed = 2
  /\ foundInRun = 1
  /\ \E k \in 1..Len(outbox) : outbox[k].type = "found"

\* the engine at rest: not running, no batch in progress, no callback pending
Quiescent == ~isRunning /\ currentConfig = Null /\ pc = "idle" /\ timers = <<>>
\* a stop command is the next command the worker's event loop will dispatch
StopDelivered == inbox # <<>> /\ Head(inbox).type = "stop"

\* C14: under fair scheduling a stop that is delivered is dispatched and leads
\* to the engine at rest, unless a start is accepted after it (the engine runs
\* again); and while the engine is stopped no batch begins, no callback is
\* scheduled, no event posted
C14_TerminationAfterStop ==
  /\ StopDelivered ~> (~StopDelivered /\ (Quiescent \/ isRunning))
  /\ [][ (~isRunning /\ ~isRunning') =>
           /\ pc' = "idle"
           /\ Len(timers') <= Len(timers)
           /\ Len(outbox') <= Len(outbox) ]_vars

\* a stop was processed in a run with two batches: the engine is at rest with
\* the events of the run posted and no callback left
C14_Witness ==
  /\ Quiescent
  /\ run = 1 /\ completed = 2
  /\ inbox = <<>>

\* C18: the results and the attempts the controller shows belong to its last
\* start: every entry of results was posted by the run that start began, and
\* no progress event of another run was added to attempts (the controller
\* posts a stop before every start but the first, so the worker's k-th run
\* answers the controller's k-th start)
C18_RunIsolation ==
  /\ Len(resultsOf) = Len(results)
  /\ \A k \in 1..Len(resultsOf) : resultsOf[k] = uiStart
  /\ \A r \in attemptsOf : r = uiStart

\* a start is accepted, a stop is handled
StartAccepted == CommandStep /\ Head(inbox).type = "start" /\ ~isRunning
StopHandled == CommandStep /\ Head(inbox).type = "stop"
Coherent == isRunning <=> currentConfig # Null

\* C19: isRunning is true exactly when currentConfig is not null; an accepted
\* start sets isRunning and stores its config, a stop clears both, and no other
\* step (a start that is dropped, a callback, a batch, its failure) changes them
C19_RunStateCoherence ==
  [][ /\ Coherent /\ Coherent'
      /\ StartAccepted => (isRunning' /\ currentConfig' = Head(inbox).config)
      /\ StopHandled => (~isRunning' /\ currentConfig' = Null)
      /\ ~(StartAccepted \/ StopHandled) => UNCHANGED <<isRunning, currentConfig>> ]_vars

\* a second run, begun after a stop, with a config that is not the first one's:
\* a batch failed in it and the run state is as the start left it
C19_Witness ==
  /\ isRunning /\ currentConfig # Null
  /\ run = 2 /\ currentConfig = runConfig
  /\ currentConfig.startsWith # <<>>
  /\ failed = 2

\* C20: once the key primitive has failed in a run, the next start the worker
\* dispatches is accepted: it stores the new config and enters a new batch (a
\* stop dispatched in between leaves the engine idle, so the start is accepted
\* then as well)
C20_RecoveryAfterFailure ==
  [][ (CommandStep /\ Head(inbox).type = "start" /\ failed # 0 /\ failed = run) =>
        /\ isRunning' /\ currentConfig' = Head(inbox).config
        /\ run' = run + 1
        /\ pc' = "batch" /\ i' = 0 ]_vars
====
